---- MODULE Spec2Model ----
(***************************************************************************)
(* Model of the METAINFERENCE bias (src/src/bias/Metainference.cpp): the   *)
(* constructor, the Monte Carlo sampler doMonteCarlo(), the two force      *)
(* engines and calculate(), run by every rank of every replica.            *)
(*                                                                         *)
(* A double is a fixed-point integer with FP units per 1.0.  A process is  *)
(* a pair <<replica, rank>>; rank 0 of a replica is the rank for which     *)
(* comm.Get_rank()==0 and the only one that enters multi_sim_comm.         *)
(* A directive the constructor refuses leaves pc = "error": error() ends   *)
(* the construction and no operation of the action runs.                   *)
(***************************************************************************)
EXTENDS Integers, Sequences, FiniteSets, TLC

\* ------------------------------------------------------------------------
\* bounds of the model
\* ------------------------------------------------------------------------
MaxRep == 2        \* largest number of replicas (multi_sim_comm.Get_size())
NRanks == 2        \* ranks of one replica (comm.Get_size())
MaxStep == 2       \* last MD step on which the host calls calculate()
RAND_MAX == 4      \* largest value rand() returns

\* ------------------------------------------------------------------------
\* double arithmetic, fixed point
\* ------------------------------------------------------------------------
FP == 1000
LN2 == 693

Mul(a, b) == (a * b) \div FP
Div(a, b) == (a * FP) \div b
HALF == FP \div 2

\* std::log
RECURSIVE Ln(_)
Ln(X) ==
  IF X <= 0 THEN -(40 * FP)
  ELSE IF X >= 2 * FP THEN LN2 + Ln(X \div 2)
  ELSE IF X < FP THEN Ln(2 * X) - LN2
  ELSE LET z == ((X - FP) * FP) \div (X + FP)
       IN  2 * z + (2 * Mul(Mul(z, z), z)) \div 3

\* exp
RECURSIVE Exp(_)
Exp(X) ==
  IF X > 0 THEN (IF Exp(-X) = 0 THEN 40 * FP * FP ELSE Div(FP, Exp(-X)))
  ELSE IF -X > 12 * FP THEN 0
  ELSE IF -X >= LN2 THEN Exp(X + LN2) \div 2
  ELSE LET d == -X
           q == Mul(d, d)
       IN  ((12 * FP - 6 * d + q) * FP) \div (12 * FP + 6 * d + q)

\* sqrt
RECURSIVE SqrtIter(_, _)
SqrtIter(v, g) ==
  LET g2 == (g + v \div g) \div 2
  IN  IF g2 >= g THEN g ELSE SqrtIter(v, g2)
Sqrt(X) == IF X <= 0 THEN 0 ELSE SqrtIter(X * FP, IF X > FP THEN X ELSE FP)

RECURSIVE SumTo(_, _)
SumTo(f, n) == IF n = 0 THEN 0 ELSE f[n] + SumTo(f, n - 1)

\* ------------------------------------------------------------------------
\* rand(), srand(): a linear congruential generator
\* ------------------------------------------------------------------------
RandModulus == (RAND_MAX + 1) * (RAND_MAX + 1)
srand(iseed) == iseed % RandModulus
RandNext(x) == ((RAND_MAX + 2) * x + 1) % RandModulus
rand(x) == RandNext(x) \div (RAND_MAX + 1)

\* ------------------------------------------------------------------------
\* the directive read by the constructor, and the host's inputs
\* ------------------------------------------------------------------------
sqrt2pi == 2507
sqrt2_div_pi == 450

GAUSS == "GAUSS"
MGAUSS == "MGAUSS"
LTAIL == "LTAIL"

\* one valid METAINFERENCE directive; KBT is the host's kT, STRIDE the
\* action's stride (getStride()), narg the number of arguments of ARG; an
\* entry of PARARG is the value of another action with its hasDerivatives()
BaseInput ==
  [ NOISETYPE |-> GAUSS, narg |-> 1, PARAMETERS |-> <<FP>>, PARARG |-> <<>>,
    SCALEDATA |-> FALSE, SCALE0 |-> FP, SCALE_MIN |-> FP,
    SCALE_MAX |-> 2 * FP, DSCALE |-> FP,
    SIGMA0 |-> <<FP>>, SIGMA_MIN |-> FP, SIGMA_MAX |-> 2 * FP,
    DSIGMA |-> FP, SIGMA_MEAN |-> FP,
    MC_STEPS |-> 1, MC_STRIDE |-> 1, STRIDE |-> 1, KBT |-> FP ]

ValidInputs ==
  { BaseInput,
    [BaseInput EXCEPT !.SCALEDATA = TRUE, !.KBT = 2 * FP],
    [BaseInput EXCEPT !.NOISETYPE = MGAUSS, !.narg = 2,
                      !.PARAMETERS = <<FP, 2 * FP>>, !.SCALEDATA = TRUE,
                      !.MC_STEPS = 2],
    [BaseInput EXCEPT !.NOISETYPE = MGAUSS, !.narg = 2,
                      !.PARAMETERS = <<FP, 2 * FP>>,
                      !.SIGMA0 = <<FP, 2 * FP>>, !.MC_STRIDE = 2],
    \* SCALE0 is not read without SCALEDATA
    [BaseInput EXCEPT !.NOISETYPE = LTAIL, !.narg = 2,
                      !.PARAMETERS = <<FP, 2 * FP>>, !.KBT = 2 * FP,
                      !.SCALE0 = 2 * FP],
    \* moves wider than the interval
    [BaseInput EXCEPT !.SCALEDATA = TRUE, !.DSCALE = 2 * FP,
                      !.DSIGMA = 2 * FP],
    \* no inner MC step
    [BaseInput EXCEPT !.SCALEDATA = TRUE, !.MC_STEPS = 0],
    \* multiple time stepping, reference values from PARARG
    [BaseInput EXCEPT !.STRIDE = 2, !.MC_STRIDE = 2, !.PARAMETERS = <<>>,
                      !.PARARG = <<[val |-> FP, deriv |-> FALSE]>>],
    \* nothing moves
    [BaseInput EXCEPT !.PARAMETERS = <<0>>, !.DSIGMA = 0, !.KBT = 2 * FP,
                      !.SIGMA_MEAN = 2 * FP] }

\* directives the constructor refuses
InvalidInputs ==
  { [BaseInput EXCEPT !.PARAMETERS = <<FP, 2 * FP>>],
    [BaseInput EXCEPT !.PARARG = <<[val |-> FP, deriv |-> FALSE]>>],
    [BaseInput EXCEPT !.narg = 2, !.PARAMETERS = <<>>,
                      !.PARARG = <<[val |-> FP, deriv |-> FALSE]>>],
    [BaseInput EXCEPT !.PARAMETERS = <<>>,
                      !.PARARG = <<[val |-> FP, deriv |-> TRUE]>>],
    [BaseInput EXCEPT !.PARAMETERS = <<>>],
    [BaseInput EXCEPT !.NOISETYPE = "UNIFORM"],
    [BaseInput EXCEPT !.narg = 2, !.PARAMETERS = <<FP, 2 * FP>>,
                      !.SIGMA0 = <<FP, 2 * FP>>],
    [BaseInput EXCEPT !.NOISETYPE = LTAIL, !.narg = 2,
                      !.PARAMETERS = <<FP, 2 * FP>>,
                      !.SIGMA0 = <<FP, FP>>],
    [BaseInput EXCEPT !.NOISETYPE = MGAUSS, !.narg = 2,
                      !.PARAMETERS = <<FP, 2 * FP>>,
                      !.SIGMA0 = <<FP, FP, FP>>],
    [BaseInput EXCEPT !.NOISETYPE = MGAUSS, !.SIGMA0 = <<>>] }

Inputs == ValidInputs \cup InvalidInputs

\* wall-clock seconds time(NULL) may return; the leaders read the clock in
\* the same second
TimeVals == {0, 1}
\* the values of the first argument the host may supply; argument i is i
\* times the first, and the replicas with an even index see one trajectory,
\* those with an odd index another
ArgVals == {0, 2 * FP}
ArgVector(a, n) == [j \in 1..n |-> a * j]

\* ------------------------------------------------------------------------
\* state
\* ------------------------------------------------------------------------
VARIABLES
  input,        \* the directive
  topo,         \* multi_sim_comm.Get_size()
  conf,         \* the fields the constructor sets once, equal on every rank
  nrep_, replica_, sigma_mean_,
  scale_, sigma_, old_energy, MCaccept_, MCfirst_,
  seed,         \* state of each process's rand()
  valueScale, valueSigma, valueAccept, valueBias, outputForce,
  step, exchange, arg,      \* getStep(), getExchangeStep(), getArgument()
  pc, i, new_scale, new_sigma, new_energy, delta,  \* position in
                            \* calculate() and locals of doMonteCarlo()
  MCcalls, firstRun, lastRun, ncalc,  \* history: sampler invocations,
                            \* step of the first and of the latest one,
                            \* completed calculate() calls
  inv_s2,                   \* the inv_s2 of the latest getEnergyForceGJE()
  energy_of                 \* history: the <<scale, sigma>> passed to the
                            \* energy function whose result old_energy holds

confVars == <<input, topo, conf, nrep_, replica_, sigma_mean_>>
mcVars == <<scale_, sigma_, old_energy, MCaccept_>>
outVars == <<valueScale, valueSigma, valueAccept, valueBias, outputForce>>
hostVars == <<step, exchange, arg>>
localVars == <<i, new_scale, new_sigma, new_energy, delta>>
histVars == <<MCcalls, firstRun, lastRun, ncalc, inv_s2, energy_of>>
vars == <<confVars, mcVars, MCfirst_, seed, outVars, hostVars, pc,
          localVars, histVars>>

Replicas == 0..(topo - 1)
Ranks == 0..(NRanks - 1)
Procs == {<<r, k>> : r \in Replicas, k \in Ranks}
Leader(p) == <<p[1], 0>>
PerReplica(a, b) == [r \in Replicas |-> IF r % 2 = 0 THEN a ELSE b]
Root == <<0, 0>>

\* ------------------------------------------------------------------------
\* collectives: comm is the intra-replica communicator, multi_sim_comm the
\* communicator of the rank-0 processes of all replicas
\* ------------------------------------------------------------------------
RECURSIVE SumRanks(_, _, _)
SumRanks(v, r, k) ==
  IF k < 0 THEN 0 ELSE v[<<r, k>>] + SumRanks(v, r, k - 1)
RECURSIVE SumReplicas(_, _)
SumReplicas(v, r) ==
  IF r < 0 THEN 0 ELSE v[<<r, 0>>] + SumReplicas(v, r - 1)

\* comm.Sum(x): every rank gets the sum over the ranks of its replica
CommSum(v) == [p \in DOMAIN v |-> SumRanks(v, p[1], NRanks - 1)]
\* if(comm.Get_rank()==0) multi_sim_comm.Sum(x)
MultiSimSum(v) ==
  LET total == SumReplicas(v, topo - 1)
  IN  [p \in DOMAIN v |-> IF p[2] = 0 THEN total ELSE v[p]]
\* comm.Bcast(x,0)
CommBcast(v) == [p \in DOMAIN v |-> v[Leader(p)]]
\* if(comm.Get_rank()==0) multi_sim_comm.Bcast(x,0)
MultiSimBcast(v) ==
  LET root == v[Root]
  IN  [p \in DOMAIN v |-> IF p[2] = 0 THEN root ELSE v[p]]

\* a collective returns once all its participants have entered it: the
\* ranks of a replica for comm, the rank-0 processes for multi_sim_comm;
\* enters[p] says whether process p reaches the call
CommMatched(enters) ==
  \A r \in Replicas : \A k \in Ranks : enters[<<r, k>>] = enters[<<r, 0>>]
MultiSimMatched(enters) ==
  \A r \in Replicas : enters[<<r, 0>>] = enters[Root]

\* ------------------------------------------------------------------------
\* Metainference::Metainference
\* ------------------------------------------------------------------------
\* parameters: PARAMETERS, then the values of PARARG pushed back
ParametersInit(in) ==
  in.PARAMETERS \o [k \in 1..Len(in.PARARG) |-> in.PARARG[k].val]

\* the error() calls on PARARG; the variant accepts values with derivatives
ParargError_NoDerivativeTest(in) ==
  in.PARARG # <<>> /\ (\/ Len(in.PARAMETERS) > 0
                       \/ Len(in.PARARG) # in.narg)
ParargError(in) ==
  in.PARARG # <<>> /\ (\/ Len(in.PARAMETERS) > 0
                       \/ Len(in.PARARG) # in.narg
                       \/ \E k \in 1..Len(in.PARARG) : in.PARARG[k].deriv)

\* the constructor reaches one of its error() calls
ConstructionError(in) ==
  \/ Len(in.PARAMETERS) # in.narg /\ in.PARAMETERS # <<>>
  \/ ParargError(in)
  \/ Len(ParametersInit(in)) # in.narg
  \/ in.NOISETYPE \notin {GAUSS, MGAUSS, LTAIL}
  \/ in.NOISETYPE # MGAUSS /\ Len(in.SIGMA0) > 1
  \/ Len(in.SIGMA0) # in.narg /\ Len(in.SIGMA0) # 1

\* sigma_ as the constructor sizes it from SIGMA0; the variant forgets the
\* resize of the MGAUSS case
SigmaInit_NoResize(in) ==
  IF Len(in.SIGMA0) = in.narg THEN in.SIGMA0
  ELSE IF Len(in.SIGMA0) = 1 THEN <<in.SIGMA0[1]>>
  ELSE <<>>
SigmaInit(in) ==
  IF Len(in.SIGMA0) = in.narg THEN in.SIGMA0
  ELSE IF Len(in.SIGMA0) = 1
       THEN (IF in.NOISETYPE = MGAUSS
             THEN [j \in 1..in.narg |-> in.SIGMA0[1]]
             ELSE <<in.SIGMA0[1]>>)
  ELSE <<>>

\* MCstride_ *= getStride(); the variant leaves MC_STRIDE as read
StrideInit_Unscaled(in) == in.MC_STRIDE
StrideInit(in) == in.MC_STRIDE * in.STRIDE

Constructor(in) ==
  [ parameters |-> ParametersInit(in),
    noise_type_ |-> in.NOISETYPE,
    doscale_ |-> in.SCALEDATA,
    scale_min_ |-> in.SCALE_MIN, scale_max_ |-> in.SCALE_MAX,
    Dscale_ |-> in.DSCALE,
    sigma_min_ |-> in.SIGMA_MIN, sigma_max_ |-> in.SIGMA_MAX,
    Dsigma_ |-> in.DSIGMA,
    kbt_ |-> in.KBT,
    ndata_ |-> in.narg,
    MCsteps_ |-> in.MC_STEPS,
    MCstride_ |-> StrideInit(in) ]

\* scale_: SCALE0 with SCALEDATA, 1.0 without; the variant reads SCALE0 in
\* both cases
ScaleInit_AlwaysParsed(in) == in.SCALE0
ScaleInit(in) == IF in.SCALEDATA THEN in.SCALE0 ELSE FP

\* nrep_, replica_: set on rank 0, zero elsewhere, then comm.Sum; the
\* variant sets nrep_ on every rank
NrepInit_EveryRank(P, n) == CommSum([p \in P |-> n])
NrepInit(P, n) == CommSum([p \in P |-> IF p[2] = 0 THEN n ELSE 0])
ReplicaInit(P) == CommSum([p \in P |-> IF p[2] = 0 THEN p[1] ELSE 0])
\* sigma_mean_ /= sqrt(nrep_); the variant divides by nrep_
SigmaMeanInit_NoSqrt(sm, n) == Div(sm, n * FP)
SigmaMeanInit(sm, n) == Div(sm, Sqrt(n * FP))
\* iseed = time(NULL)+replica_ on rank 0, zero elsewhere, comm.Sum, srand;
\* the variant seeds without the comm.Sum
SeedInit_NoSum(P, t, rep) ==
  [p \in P |-> srand(IF p[2] = 0 THEN t[p[1]] + rep[p] ELSE 0)]
SeedInit(P, t, rep) ==
  LET iseed == CommSum([p \in P |-> IF p[2] = 0 THEN t[p[1]] + rep[p] ELSE 0])
  IN  [p \in P |-> srand(iseed[p])]

Init ==
  /\ input \in Inputs
  /\ topo \in 1..MaxRep
  /\ conf = Constructor(input)
  /\ nrep_ = NrepInit(Procs, topo)
  /\ replica_ = ReplicaInit(Procs)
  /\ sigma_mean_ = [p \in Procs |-> SigmaMeanInit(input.SIGMA_MEAN, nrep_[p])]
  /\ scale_ = [p \in Procs |-> ScaleInit(input)]
  /\ sigma_ = [p \in Procs |-> SigmaInit(input)]
  /\ old_energy = [p \in Procs |-> 0]
  /\ MCaccept_ = [p \in Procs |-> 0]
  /\ MCfirst_ = [p \in Procs |-> -1]
  /\ \E t0 \in TimeVals :
       seed = SeedInit(Procs, PerReplica(t0, t0), replica_)
  /\ valueScale = [p \in Procs |-> 0]
  /\ valueSigma = [p \in Procs |-> [j \in 1..Len(sigma_[p]) |-> 0]]
  /\ valueAccept = [p \in Procs |-> [nan |-> FALSE, val |-> 0]]
  /\ valueBias = [p \in Procs |-> 0]
  /\ outputForce = [p \in Procs |-> [j \in 1..input.narg |-> 0]]
  /\ step = -1
  /\ exchange = FALSE
  /\ arg = [r \in Replicas |-> ArgVector(0, input.narg)]
  /\ pc = IF ConstructionError(input) THEN "error" ELSE "idle"
  /\ i = 0
  /\ new_scale = scale_
  /\ new_sigma = sigma_
  /\ new_energy = [p \in Procs |-> 0]
  /\ delta = [p \in Procs |-> 0]
  /\ MCcalls = 0
  /\ firstRun = -1
  /\ lastRun = -1
  /\ ncalc = 0
  /\ inv_s2 = [p \in Procs |-> [j \in 1..Len(sigma_[p]) |-> 0]]
  /\ energy_of = [p \in Procs |-> <<>>]

\* ------------------------------------------------------------------------
\* the noise-model energies used by the sampler
\* ------------------------------------------------------------------------
getArgument(p, j) == arg[p[1]][j]
NArg == conf.ndata_

\* Metainference::getEnergySPE
getEnergySPE(sigma, scale, p) ==
  LET smean2 == Mul(sigma_mean_[p], sigma_mean_[p])
      s == Sqrt(Mul(sigma, sigma) + smean2)
      s2 == Mul(s, s)
      term == [j \in 1..NArg |->
                 LET dev == Mul(scale, getArgument(p, j)) - conf.parameters[j]
                     a2 == Mul(Mul(HALF, dev), dev) + s2
                 IN  Ln(Div(2 * a2, FP - Exp(-Div(a2, smean2))))]
      ene == SumTo(term, NArg)
             + Ln(s) - conf.ndata_ * Ln(Mul(sqrt2_div_pi, s))
  IN  Mul(conf.kbt_, ene)

\* Metainference::getEnergyGJE
getEnergyGJE(sigma, scale, p) ==
  LET smean2 == Mul(sigma_mean_[p], sigma_mean_[p])
      term == [j \in 1..NArg |->
                 LET sj == IF conf.noise_type_ = MGAUSS THEN sigma[j]
                           ELSE sigma[1]
                     ss == Mul(sj, sj) + smean2
                     dev == Mul(scale, getArgument(p, j)) - conf.parameters[j]
                 IN  Div(Mul(Mul(HALF, dev), dev), ss)
                     + Ln(Mul(ss, sqrt2pi))]
  IN  Mul(conf.kbt_, SumTo(term, NArg))

\* the switch(noise_type_) of doMonteCarlo
Energy(sigma, scale, p) ==
  IF conf.noise_type_ = LTAIL THEN getEnergySPE(sigma[1], scale, p)
  ELSE getEnergyGJE(sigma, scale, p)

\* ------------------------------------------------------------------------
\* Metainference::doMonteCarlo
\* ------------------------------------------------------------------------
\* static_cast<double>(rand()) / RAND_MAX
Uniform(r) == (r * FP) \div RAND_MAX

RECURSIVE RandIter(_, _)
RandIter(x, n) == IF n = 0 THEN x ELSE RandIter(RandNext(x), n - 1)

\* the move -D + r * 2.0 * D
Move(D, r) == -D + Mul(Mul(Uniform(r), 2 * FP), D)

\* check boundaries: first against the maximum, then against the minimum;
\* the variant leaves out the test against the minimum
Reflect_NoMinTest(v, lo, hi) == IF v > hi THEN 2 * hi - v ELSE v
Reflect(v, lo, hi) ==
  LET a == IF v > hi THEN 2 * hi - v ELSE v
  IN  IF a < lo THEN 2 * lo - a ELSE a

\* for(unsigned i=0;i<MCsteps_;++i); the variant tests after the body
LoopContinues_DoWhile(k, n) == k <= n
LoopContinues(k, n) == k < n

\* if(step%MCstride_==0&&!getExchangeStep()); the variant drops the
\* exchange test
SamplerStep_IgnoreExchange(s, stride, exch) == s % stride = 0
SamplerStep(s, stride, exch) == s % stride = 0 /\ ~exch

\* the Metropolis test; s is drawn only when delta > 0; the variant turns
\* the comparison with the draw around
NeedsDraw(d) == d > 0
Accepts_Inverted(d, s) == d <= 0 \/ s > Exp(-d)
Accepts(d, s) == d <= 0 \/ s < Exp(-d)

\* number of rand() calls of the scale proposal
ScaleDraws == IF conf.doscale_ THEN 1 ELSE 0

\* the scale each process proposes before the broadcasts
ProposedScale(p) ==
  IF conf.doscale_
  THEN Reflect(scale_[p] + Move(conf.Dscale_, rand(seed[p])),
               conf.scale_min_, conf.scale_max_)
  ELSE scale_[p]

\* the sigma vector each process proposes
ProposedSigma(p) ==
  [j \in 1..Len(sigma_[p]) |->
     Reflect(sigma_[p][j]
               + Move(conf.Dsigma_,
                      rand(RandIter(seed[p], ScaleDraws + j - 1))),
             conf.sigma_min_, conf.sigma_max_)]

\* the scaling factor should be the same for all the replicas: new_scale
\* after the two broadcasts; the variant broadcasts inside the replica only
BroadcastProposal_IntraOnly(v) == CommBcast(v)
BroadcastProposal(v) == CommBcast(MultiSimBcast(v))

\* if(doscale_) around the broadcasts of new_scale
EntersProposalBcast == [p \in Procs |-> conf.doscale_]

\* the host calls calculate() on the next step of the action
HostStep ==
  /\ pc = "idle"
  /\ \E s \in 0..MaxStep :
       /\ s % input.STRIDE = 0
       /\ IF step = -1 THEN s <= input.STRIDE ELSE s = step + input.STRIDE
       /\ step' = s
  /\ exchange' \in BOOLEAN
  /\ \E a0, a1 \in ArgVals :
       arg' = PerReplica(ArgVector(a0, input.narg), ArgVector(a1, input.narg))
  /\ pc' = "calculate"
  /\ UNCHANGED <<confVars, mcVars, MCfirst_, seed, outVars, localVars,
                 histVars>>

\* calculate() calls doMonteCarlo(): old energy, first time only
MonteCarloEnter ==
  /\ pc = "calculate"
  /\ SamplerStep(step, conf.MCstride_, exchange)
  /\ old_energy' = [p \in Procs |->
        IF MCfirst_[p] = -1 THEN Energy(sigma_[p], scale_[p], p)
        ELSE old_energy[p]]
  /\ energy_of' = [p \in Procs |->
        IF MCfirst_[p] = -1 THEN <<scale_[p], sigma_[p]>> ELSE energy_of[p]]
  /\ i' = 0
  /\ pc' = IF LoopContinues(0, conf.MCsteps_) THEN "propose" ELSE "save"
  /\ MCcalls' = MCcalls + 1
  /\ firstRun' = IF firstRun = -1 THEN step ELSE firstRun
  /\ lastRun' = step
  /\ UNCHANGED <<confVars, scale_, sigma_, MCaccept_, MCfirst_, seed,
                 outVars, hostVars, new_scale, new_sigma, new_energy, delta,
                 ncalc, inv_s2>>

\* calculate() on a step that is not a sampler step
MonteCarloSkip ==
  /\ pc = "calculate"
  /\ ~SamplerStep(step, conf.MCstride_, exchange)
  /\ pc' = "finish"
  /\ UNCHANGED <<confVars, mcVars, MCfirst_, seed, outVars, hostVars,
                 localVars, histVars>>

\* propose the moves, broadcast the scale, calculate the new energy
Propose ==
  /\ pc = "propose"
  /\ MultiSimMatched(EntersProposalBcast) /\ CommMatched(EntersProposalBcast)
  /\ new_scale' = IF conf.doscale_
                  THEN BroadcastProposal([p \in Procs |-> ProposedScale(p)])
                  ELSE scale_
  /\ new_sigma' = [p \in Procs |-> ProposedSigma(p)]
  /\ seed' = [p \in Procs |->
                RandIter(seed[p], ScaleDraws + Len(sigma_[p]))]
  /\ new_energy' = [p \in Procs |-> Energy(new_sigma'[p], new_scale'[p], p)]
  /\ pc' = "metropolis"
  /\ UNCHANGED <<confVars, mcVars, MCfirst_, outVars, hostVars, i, delta,
                 histVars>>

\* accept or reject
Delta(p) == Div(new_energy[p] - old_energy[p], conf.kbt_)
Accepted(p) == Accepts(Delta(p), Uniform(rand(seed[p])))

Metropolis ==
  /\ pc = "metropolis"
  /\ LET acc == [p \in Procs |-> Accepted(p)]
     IN  /\ old_energy' = [p \in Procs |->
               IF acc[p] THEN new_energy[p] ELSE old_energy[p]]
         /\ scale_' = [p \in Procs |->
               IF acc[p] THEN new_scale[p] ELSE scale_[p]]
         /\ sigma_' = [p \in Procs |->
               IF acc[p] THEN new_sigma[p] ELSE sigma_[p]]
         /\ MCaccept_' = [p \in Procs |->
               IF acc[p] THEN MCaccept_[p] + 1 ELSE MCaccept_[p]]
         /\ energy_of' = [p \in Procs |->
               IF acc[p] THEN <<new_scale[p], new_sigma[p]>>
               ELSE energy_of[p]]
  /\ seed' = [p \in Procs |->
        IF NeedsDraw(Delta(p)) THEN RandNext(seed[p]) ELSE seed[p]]
  /\ delta' = [p \in Procs |-> Delta(p)]
  /\ pc' = "sync"
  /\ UNCHANGED <<confVars, MCfirst_, outVars, hostVars, i, new_scale,
                 new_sigma, new_energy, MCcalls, firstRun, lastRun, ncalc,
                 inv_s2>>

\* the scaling factor should be the same for all the replicas; ++i; the
\* variant leaves out the broadcast between the replicas
SyncedScale_NoReplicaBcast(v) == CommBcast(v)
SyncedScale(v) == CommBcast(MultiSimBcast(v))

\* if(doscale_) around the broadcasts of scale_, after the accept/reject
\* statement; the variant has them inside the branch of an accepted move
EntersScaleBcast_OnAccept ==
  [p \in Procs |-> conf.doscale_ /\ old_energy[p] = new_energy[p]]
EntersScaleBcast == [p \in Procs |-> conf.doscale_]

SyncScale ==
  /\ pc = "sync"
  /\ MultiSimMatched(EntersScaleBcast) /\ CommMatched(EntersScaleBcast)
  /\ scale_' = IF EntersScaleBcast[Root] THEN SyncedScale(scale_) ELSE scale_
  /\ i' = i + 1
  /\ pc' = IF LoopContinues(i + 1, conf.MCsteps_) THEN "propose" ELSE "save"
  /\ UNCHANGED <<confVars, sigma_, old_energy, MCaccept_, MCfirst_, seed,
                 outVars, hostVars, new_scale, new_sigma, new_energy, delta,
                 histVars>>

\* save the result of the sampling
SaveSampling ==
  /\ pc = "save"
  /\ valueScale' = IF conf.doscale_ THEN scale_ ELSE valueScale
  /\ valueSigma' = sigma_
  /\ pc' = "finish"
  /\ UNCHANGED <<confVars, mcVars, MCfirst_, seed, valueAccept, valueBias,
                 outputForce, hostVars, localVars, histVars>>

\* ------------------------------------------------------------------------
\* the force engines
\* ------------------------------------------------------------------------
Dev(p, j) == Mul(scale_[p], getArgument(p, j)) - conf.parameters[j]
\* smean2; the variant forgets to square
Smean2_Unsquared(p) == sigma_mean_[p]
Smean2(p) == Mul(sigma_mean_[p], sigma_mean_[p])

\* 1./(1.-1./t), with 1./0 = inf
Dit(t) == IF t = 0 THEN 0 ELSE Div(FP, FP - Div(FP, t))

\* the normalization and Jeffrey's prior of the local replica
NormSPE(p) ==
  LET s == Sqrt(Mul(sigma_[p][1], sigma_[p][1]) + Smean2(p))
  IN  Ln(s) - conf.ndata_ * Ln(Mul(sqrt2_div_pi, s))

\* what rank 0 of a replica computes before the sums of
\* getEnergyForceSPE: its energy and its force on every argument
LocalSPE(p) ==
  LET smean2 == Smean2(p)
      s == Sqrt(Mul(sigma_[p][1], sigma_[p][1]) + smean2)
      s2 == Mul(s, s)
      one == [j \in 1..NArg |->
         LET dev == Dev(p, j)
             a2 == Mul(Mul(HALF, dev), dev) + s2
             t == Exp(-Div(a2, smean2))
         IN  [e |-> Ln(Mul(Mul(2 * FP, a2), Div(FP, FP - t))),
              f |-> Mul(Mul(-scale_[p], dev),
                        Div(Dit(t), smean2) + Div(FP, a2))]]
  IN  [ene |-> SumTo([j \in 1..NArg |-> one[j].e], NArg),
       f |-> [j \in 1..NArg |-> one[j].f]]

\* add normalizations and priors of local replica, inside
\* if(comm.Get_rank()==0); the variant adds them on every rank
AddNorm_EveryRank(p, e) == e + NormSPE(p)
AddNorm(p, e) == IF p[2] = 0 THEN e + NormSPE(p) ELSE e

\* intra-replica summation; the variant leaves it out
IntraReplicaSum_Skipped(v) == v
IntraReplicaSum(v) == CommSum(v)

\* Metainference::getEnergyForceSPE: the energy returned and the forces
\* written on every process; inv_s2 is not touched
getEnergyForceSPE ==
  LET loc == [p \in Procs |->
         IF p[2] = 0 THEN LocalSPE(p)
         ELSE [ene |-> 0, f |-> [j \in 1..NArg |-> 0]]]
      eRep == MultiSimSum([p \in Procs |-> loc[p].ene])
      eNorm == [p \in Procs |-> AddNorm(p, eRep[p])]
      ene == IntraReplicaSum(eNorm)
      f == [j \in 1..NArg |->
              IntraReplicaSum(MultiSimSum([p \in Procs |-> loc[p].f[j]]))]
  IN  [ene |-> ene,
       f |-> [p \in Procs |-> [j \in 1..NArg |-> Mul(conf.kbt_, f[j][p])]],
       inv_s2 |-> inv_s2]

\* the inverse variances of getEnergyForceGJE after the two sums, entry j
\* on every process; the variant sets inv_s2 on every rank before the sums
InvS2_EveryRank ==
  [j \in 1..Len(sigma_[Root]) |->
     CommSum(MultiSimSum([p \in Procs |->
        Div(FP, Mul(sigma_[p][j], sigma_[p][j]) + Smean2(p))]))]
InvS2 ==
  [j \in 1..Len(sigma_[Root]) |->
     CommSum(MultiSimSum([p \in Procs |->
        IF p[2] = 0
        THEN Div(FP, Mul(sigma_[p][j], sigma_[p][j]) + Smean2(p))
        ELSE 0]))]

\* unsigned sel_sigma=0; if(noise_type_==MGAUSS) sel_sigma=i
SelSigma(j) == IF conf.noise_type_ = MGAUSS THEN j ELSE 1

\* Metainference::getEnergyForceGJE: the energy returned, the forces
\* written and inv_s2 on every process
getEnergyForceGJE ==
  LET inv == InvS2
  IN  [ene |-> [p \in Procs |->
          SumTo([j \in 1..NArg |->
                   LET sel == SelSigma(j)
                       ss == Mul(sigma_[p][sel], sigma_[p][sel]) + Smean2(p)
                       dev == Dev(p, j)
                   IN  Mul(Mul(Mul(HALF, dev), dev), inv[sel][p])
                       + Ln(Mul(ss, sqrt2pi))], NArg)],
       f |-> [p \in Procs |-> [j \in 1..NArg |->
                Mul(Mul(Mul(-conf.kbt_, Dev(p, j)), scale_[p]),
                    inv[SelSigma(j)][p])]],
       inv_s2 |-> [p \in Procs |->
                     [j \in 1..Len(sigma_[p]) |-> inv[j][p]]]]

\* the switch(noise_type_) of calculate
EnergyForce ==
  IF conf.noise_type_ = LTAIL THEN getEnergyForceSPE ELSE getEnergyForceGJE

\* ------------------------------------------------------------------------
\* Metainference::calculate, after the sampler
\* ------------------------------------------------------------------------
\* floor((step-MCfirst_)/MCstride_)+1.0; the variant forgets the +1.0
MCtrials_NoPlusOne(s, first, stride) == (s - first) \div stride
MCtrials(s, first, stride) == ((s - first) \div stride) + 1

\* MCaccept_ / MCsteps_ / MCtrials as a double; x/0 is not a number; the
\* variant leaves out the division by MCsteps_
AcceptRatio_NoSteps(acc, steps, trials) ==
  IF steps = 0 \/ trials = 0 THEN [nan |-> TRUE, val |-> 0]
  ELSE [nan |-> FALSE, val |-> Div(acc * FP, trials * FP)]
AcceptRatio(acc, steps, trials) ==
  IF steps = 0 \/ trials = 0 THEN [nan |-> TRUE, val |-> 0]
  ELSE [nan |-> FALSE,
        val |-> Div(Div(acc * FP, steps * FP), trials * FP)]

\* if(MCfirst_==-1) MCfirst_=step
FirstStep(first, s) == IF first = -1 THEN s ELSE first

\* the sums of the force engines are outside every branch
EntersForceSums == [p \in Procs |-> TRUE]

Finish ==
  /\ pc = "finish"
  /\ MultiSimMatched(EntersForceSums) /\ CommMatched(EntersForceSums)
  /\ MCfirst_' = [p \in Procs |-> FirstStep(MCfirst_[p], step)]
  /\ valueAccept' = [p \in Procs |->
        AcceptRatio(MCaccept_[p], conf.MCsteps_,
                    MCtrials(step, MCfirst_'[p], conf.MCstride_))]
  /\ LET ef == EnergyForce
     IN  /\ outputForce' = ef.f
         /\ valueBias' = [p \in Procs |-> Mul(conf.kbt_, ef.ene[p])]
         /\ inv_s2' = ef.inv_s2
  /\ pc' = "idle"
  /\ ncalc' = ncalc + 1
  /\ UNCHANGED <<confVars, mcVars, seed, valueScale, valueSigma, hostVars,
                 localVars, MCcalls, firstRun, lastRun, energy_of>>

Next ==
  \/ HostStep
  \/ MonteCarloEnter
  \/ MonteCarloSkip
  \/ Propose
  \/ Metropolis
  \/ SyncScale
  \/ SaveSampling
  \/ Finish

Spec == Init /\ [][Next]_vars

TypeOK ==
  /\ pc \in {"error", "idle", "calculate", "propose", "metropolis", "sync",
             "save", "finish"}
  /\ \A p \in Procs : Len(sigma_[p]) \in {1, NArg}

\* ------------------------------------------------------------------------
\* properties
\* ------------------------------------------------------------------------
AfterCalculate == pc = "idle" /\ ncalc > 0
InitialScale == IF input.SCALEDATA THEN input.SCALE0 ELSE FP
InBounds(v, lo, hi) == lo <= v /\ v <= hi

\* C1: whatever the MC step sizes, the held scale (when sampled) and every
\* held sigma component stay inside [min, max], and so does every proposal
\* after the reflection.
C1_AlwaysInBounds ==
  \A p \in Procs :
    /\ conf.doscale_ =>
         /\ InBounds(scale_[p], conf.scale_min_, conf.scale_max_)
         /\ InBounds(new_scale[p], conf.scale_min_, conf.scale_max_)
    /\ \A j \in 1..Len(sigma_[p]) :
         /\ InBounds(sigma_[p][j], conf.sigma_min_, conf.sigma_max_)
         /\ InBounds(new_sigma[p][j], conf.sigma_min_, conf.sigma_max_)

\* C2: with scale sampling, after every calculate() every rank of every
\* replica holds the scale of rank 0 of replica 0.
C2_ScaleShared ==
  (AfterCalculate /\ conf.doscale_) =>
     \A p \in Procs : scale_[p] = scale_[Root]

\* replicas that decided differently, and a scale that has moved
C2_Witness ==
  /\ AfterCalculate /\ conf.doscale_ /\ topo >= 2
  /\ MCaccept_[<<1, 0>>] # MCaccept_[Root]
  /\ scale_[Root] # input.SCALE0
  /\ scale_[<<1, 1>>] = scale_[Root]

\* C3: when the sampler is invoked for the first time, old_energy is the
\* energy of the current (scale, sigma) before any proposal is compared,
\* also when earlier calculate() calls did not run the sampler.
C3_OldEnergySeeded ==
  (MCcalls = 1 /\ lastRun = step /\ i = 0 /\ pc \in {"propose", "save"}) =>
     \A p \in Procs : old_energy[p] = Energy(sigma_[p], scale_[p], p)

\* C4: in an inner MC step, with delta = (new_energy - old_energy)/kT, a
\* proposal with delta <= 0 is accepted without a draw, one with delta > 0
\* exactly when the one fresh draw s has s < exp(-delta); acceptance
\* replaces old_energy, scale and sigma by the proposal and adds one to the
\* counter, rejection leaves them.
C4_Metropolis ==
  [][pc = "metropolis" =>
       \A p \in Procs :
         LET d == Div(new_energy[p] - old_energy[p], conf.kbt_)
             s == Uniform(rand(seed[p]))
             acc == d <= 0 \/ s < Exp(-d)
         IN  /\ seed'[p] = IF d <= 0 THEN seed[p] ELSE RandNext(seed[p])
             /\ acc => /\ old_energy'[p] = new_energy[p]
                       /\ scale_'[p] = new_scale[p]
                       /\ sigma_'[p] = new_sigma[p]
                       /\ MCaccept_'[p] = MCaccept_[p] + 1
             /\ ~acc => /\ old_energy'[p] = old_energy[p]
                        /\ scale_'[p] = scale_[p]
                        /\ sigma_'[p] = sigma_[p]
                        /\ MCaccept_'[p] = MCaccept_[p]]_vars

\* an uphill proposal accepted on its draw, next to a rejected one
C4_Witness ==
  /\ pc = "sync" /\ topo >= 2
  /\ delta[Root] > 0 /\ old_energy[Root] = new_energy[Root]
  /\ sigma_[Root] = new_sigma[Root] /\ MCaccept_[Root] >= 1
  /\ delta[<<1, 0>>] > 0 /\ old_energy[<<1, 0>>] # new_energy[<<1, 0>>]

\* C5: during a calculate() on a step flagged as an exchange step the
\* sampler is not entered and scale, sigma, old_energy and the accepted
\* counter keep their values.
C5_ExchangeFrame ==
  [][(pc # "idle" /\ exchange) =>
       /\ pc' \in {"finish", "idle"}
       /\ scale_' = scale_ /\ sigma_' = sigma_
       /\ old_energy' = old_energy /\ MCaccept_' = MCaccept_]_vars

\* an exchange step that is a multiple of the stride, after the sampler
\* has moved the state
C5_Witness ==
  /\ AfterCalculate /\ exchange /\ step % conf.MCstride_ = 0
  /\ conf.MCsteps_ > 0 /\ MCcalls >= 1 /\ lastRun < step
  /\ \E p \in Procs : MCaccept_[p] > 0

\* the sampler was invoked in the current (or just completed) calculate()
SampledThisStep == lastRun = step
DecisionTaken ==
  pc \in {"propose", "metropolis", "sync", "save", "finish"} \/ AfterCalculate

\* C6 as written: the sampler is invoked iff step modulo MC_STRIDE is zero
\* and the step is not an exchange step, for every action stride.
C6_ModuloMCStride ==
  DecisionTaken =>
     (SampledThisStep <=> (step % input.MC_STRIDE = 0 /\ ~exchange))

\* C6 amended: the sampler is invoked iff step modulo MC_STRIDE times the
\* action's stride is zero and the step is not an exchange step.
C6_ModuloScaledStride ==
  DecisionTaken =>
     (SampledThisStep <=>
        (step % (input.MC_STRIDE * input.STRIDE) = 0 /\ ~exchange))

\* action stride 2, MC_STRIDE 2: the sampler ran on step 0 and not on step 2
C6_Witness ==
  /\ AfterCalculate /\ input.STRIDE = 2 /\ input.MC_STRIDE = 2
  /\ step = 2 /\ ~exchange /\ lastRun = 0

\* C7: after every calculate() at step s the published acceptance ratio is
\* accepted_count / MC_STEPS / T with T = floor((s - first_step)/stride) + 1.
C7_AcceptRatio ==
  AfterCalculate =>
     \A p \in Procs :
       LET T == ((step - MCfirst_[p]) \div conf.MCstride_) + 1
       IN  IF conf.MCsteps_ = 0 THEN valueAccept[p].nan
           ELSE /\ ~valueAccept[p].nan
                /\ valueAccept[p].val =
                     Div(Div(MCaccept_[p] * FP, conf.MCsteps_ * FP), T * FP)

\* a ratio other than 0 and 1 after more than one trial
C7_Witness ==
  /\ AfterCalculate
  /\ \E p \in Procs :
       /\ MCaccept_[p] >= 1 /\ step >= MCfirst_[p] + conf.MCstride_
       /\ valueAccept[p].val > 0 /\ valueAccept[p].val < FP

\* C8: MCfirst_, once recorded, is the first step on which the sampler ran.
C8_FirstIsFirstSamplerStep ==
  \A p \in Procs : MCfirst_[p] # -1 => MCfirst_[p] = firstRun

\* C9: after every calculate(), also before the sampler has ever run, the
\* published sigma equals the held sigma and, with scale sampling, the
\* published scale the held scale.
C9_PublishedIsHeld ==
  AfterCalculate =>
     \A p \in Procs :
       /\ valueSigma[p] = sigma_[p]
       /\ conf.doscale_ => valueScale[p] = scale_[p]

\* C10: with MC_STEPS = 0, scale, sigma and the accepted counter keep their
\* values of construction through any number of sampler invocations.
C10_NoInnerStep ==
  conf.MCsteps_ = 0 =>
     \A p \in Procs :
       /\ scale_[p] = InitialScale
       /\ sigma_[p] = SigmaInit(input)
       /\ MCaccept_[p] = 0

\* the sampler has been invoked twice with MC_STEPS = 0
C10_Witness ==
  AfterCalculate /\ conf.MCsteps_ = 0 /\ MCcalls >= 2 /\ lastRun = step

\* the sigma vector of a constructed action is sized by the variant
Constructed == pc # "error"

\* C11 as written: after a successful construction the sigma vector has
\* length 1 or N_arg, and its length is N_arg if and only if the variant is
\* MGAUSS.
C11_LengthIffMultiSigma ==
  Constructed =>
     \A p \in Procs :
       /\ Len(sigma_[p]) \in {1, NArg}
       /\ (Len(sigma_[p]) = NArg <=> conf.noise_type_ = MGAUSS)

\* C11 amended: after a successful construction the sigma vector has length
\* N_arg when the variant is MGAUSS and length 1 otherwise (with one
\* argument the two are the same length), in every later state too, and so
\* has every proposal.
C11_LengthByVariant ==
  Constructed =>
     \A p \in Procs :
       /\ Len(sigma_[p]) = IF conf.noise_type_ = MGAUSS THEN NArg ELSE 1
       /\ Len(new_sigma[p]) = Len(sigma_[p])

\* MGAUSS, two arguments, one SIGMA0 value: two components, one of them
\* moved by the sampler
C11_Witness ==
  /\ AfterCalculate /\ conf.noise_type_ = MGAUSS /\ NArg = 2
  /\ Len(input.SIGMA0) = 1 /\ Len(sigma_[Root]) = 2
  /\ sigma_[Root][1] # sigma_[Root][2]

\* the cases of a configuration error the directive can be in
ErrorCase(in) ==
  \/ in.PARAMETERS # <<>> /\ Len(in.PARAMETERS) # in.narg
  \/ in.PARARG # <<>> /\ in.PARAMETERS # <<>>
  \/ in.PARARG # <<>> /\ Len(in.PARARG) # in.narg
  \/ \E k \in 1..Len(in.PARARG) : in.PARARG[k].deriv
  \/ Len(in.PARAMETERS) # in.narg /\ Len(in.PARARG) # in.narg
  \/ in.NOISETYPE \notin {GAUSS, MGAUSS, LTAIL}
  \/ in.NOISETYPE # MGAUSS /\ Len(in.SIGMA0) > 1
  \/ Len(in.SIGMA0) \notin {1, in.narg}

\* C12: each listed defect of the directive ends construction in a
\* configuration error after which no operation of the action can run, and
\* a construction that succeeds leaves as many reference parameters as
\* there are arguments.
C12_ConfigurationError ==
  /\ ErrorCase(input) => (pc = "error" /\ ~ENABLED Next)
  /\ Constructed => \A p \in Procs : Len(conf.parameters) = NArg

\* a PARARG value with derivatives, of the right length, refused
C12_Witness ==
  /\ pc = "error" /\ input.PARAMETERS = <<>>
  /\ Len(input.PARARG) = input.narg
  /\ \E k \in 1..Len(input.PARARG) : input.PARARG[k].deriv

\* C13: after construction every rank of a replica, leader or not, holds
\* the size of the inter-replica communicator as its replica count and the
\* rank of its leader in that communicator as its replica index.
C13_TopologyShared ==
  Constructed =>
     \A p \in Procs : nrep_[p] = topo /\ replica_[p] = p[1]

\* a rank that is not a leader, in the second replica
C13_Witness ==
  /\ Constructed /\ topo >= 2 /\ NRanks >= 2
  /\ nrep_[<<1, 1>>] = 2 /\ replica_[<<1, 1>>] = 1
  /\ nrep_[<<1, 1>>] = nrep_[<<1, 0>>]

\* a is b up to the rounding of the arithmetic (one part in a hundred)
Near(a, b) ==
  LET d == IF a >= b THEN a - b ELSE b - a
      m == IF b >= 0 THEN b ELSE -b
  IN  100 * d <= m

\* C14: sigma_mean is the configured value divided by sqrt(replica_count),
\* so that sigma_mean^2 * replica_count is the configured value squared
\* (replica counts 1, 2 and 4 too), and no step of calculate() or of the
\* sampler changes it.
C14_SigmaMeanRescaledOnce ==
  /\ [](Constructed =>
          /\ \A p \in Procs :
               Near(Mul(sigma_mean_[p], sigma_mean_[p]) * topo,
                    Mul(input.SIGMA_MEAN, input.SIGMA_MEAN))
          /\ \A n \in {1, 2, 4} :
               LET sm == SigmaMeanInit(input.SIGMA_MEAN, n)
               IN  Near(Mul(sm, sm) * n,
                        Mul(input.SIGMA_MEAN, input.SIGMA_MEAN)))
  /\ [][sigma_mean_' = sigma_mean_]_vars

\* two replicas, a configured value other than 1, after the sampler ran
C14_Witness ==
  /\ AfterCalculate /\ topo = 2 /\ MCcalls >= 1
  /\ input.SIGMA_MEAN = 2 * FP
  /\ sigma_mean_[<<1, 1>>] < input.SIGMA_MEAN
  /\ sigma_mean_[<<1, 1>>] > FP

\* the sum of f[0], ..., f[r]
RECURSIVE ReplicaTotal(_, _)
ReplicaTotal(f, r) == IF r < 0 THEN 0 ELSE f[r] + ReplicaTotal(f, r - 1)

\* 1/(sigma_j^2 + sigma_mean^2) of replica r, from the sigma its leader holds
InverseVariance(r, j) ==
  Div(FP, Mul(sigma_[<<r, 0>>][j], sigma_[<<r, 0>>][j])
            + Mul(sigma_mean_[<<r, 0>>], sigma_mean_[<<r, 0>>]))

\* C15: in the GJE path (GAUSS, MGAUSS) every rank of every replica
\* evaluates energy and force with the same inv_s2 vector, whose entry j is
\* the sum over the replicas of 1/(sigma_j^2 + sigma_mean^2) of each
\* replica's own sigma.
C15_InvS2Shared ==
  (AfterCalculate /\ conf.noise_type_ # LTAIL) =>
     \A p \in Procs :
       /\ inv_s2[p] = inv_s2[Root]
       /\ Len(inv_s2[p]) = Len(sigma_[p])
       /\ \A j \in 1..Len(inv_s2[p]) :
            inv_s2[p][j] =
              ReplicaTotal([r \in Replicas |-> InverseVariance(r, j)],
                           topo - 1)

\* two replicas holding different sigmas
C15_Witness ==
  /\ AfterCalculate /\ conf.noise_type_ # LTAIL /\ topo = 2
  /\ sigma_[Root] # sigma_[<<1, 0>>]
  /\ inv_s2[<<1, 1>>] = inv_s2[Root]
  /\ inv_s2[Root][1] > 0

\* C16: in the SPE path (LTAIL), after calculate() every rank of a replica
\* holds the energy and the force vector of the replica's leader.
C16_SPESharedInReplica ==
  (AfterCalculate /\ conf.noise_type_ = LTAIL) =>
     \A p \in Procs :
       /\ valueBias[p] = valueBias[Leader(p)]
       /\ outputForce[p] = outputForce[Leader(p)]

\* a rank that is not a leader with a force and a bias other than zero
C16_Witness ==
  /\ AfterCalculate /\ conf.noise_type_ = LTAIL /\ topo = 2
  /\ outputForce[<<1, 1>>] = outputForce[<<1, 0>>]
  /\ outputForce[<<1, 1>>][1] # 0
  /\ valueBias[<<1, 1>>] # 0

\* C17: in the SPE path the energy on every rank is the sum over the
\* replicas of the data terms plus the normalization and prior term of the
\* rank's own replica, once; with a single replica energy and forces are
\* those of the local formula.
C17_SPENormOnce ==
  (AfterCalculate /\ conf.noise_type_ = LTAIL) =>
     \A p \in Procs :
       /\ valueBias[p] =
            Mul(conf.kbt_,
                ReplicaTotal([r \in Replicas |-> LocalSPE(<<r, 0>>).ene],
                             topo - 1)
                + NormSPE(Leader(p)))
       /\ topo = 1 =>
            /\ valueBias[p] =
                 Mul(conf.kbt_, LocalSPE(Leader(p)).ene + NormSPE(Leader(p)))
            /\ \A j \in 1..NArg :
                 outputForce[p][j] =
                   Mul(conf.kbt_, LocalSPE(Leader(p)).f[j])

\* two replicas with different sigmas, hence different normalizations
C17_Witness ==
  /\ AfterCalculate /\ conf.noise_type_ = LTAIL /\ topo = 2
  /\ sigma_[Root] # sigma_[<<1, 0>>]
  /\ valueBias[Root] # valueBias[<<1, 0>>]
  /\ valueBias[<<1, 1>>] = valueBias[<<1, 0>>]

\* C18: without SCALEDATA the scale is 1.0 in every state, whatever SCALE0
\* says, no inner step proposes a scale (no draw, the proposal is the held
\* scale) and no scale output is published.
C18_ScaleFixed ==
  /\ []((Constructed /\ ~conf.doscale_) =>
          \A p \in Procs :
            scale_[p] = FP /\ new_scale[p] = FP /\ valueScale[p] = 0)
  /\ [][(pc = "propose" /\ ~conf.doscale_) =>
          \A p \in Procs :
            /\ new_scale'[p] = scale_[p]
            /\ seed'[p] = RandIter(seed[p], Len(sigma_[p]))]_vars

\* SCALE0 = 2 without SCALEDATA, after accepted moves
C18_Witness ==
  /\ AfterCalculate /\ ~conf.doscale_ /\ input.SCALE0 = 2 * FP
  /\ MCaccept_[Root] > 0 /\ scale_[Root] = FP

\* C19: in every inner step with scale sampling, the proposed energy is
\* evaluated on every rank of every replica with one proposed scale, the
\* reflected proposal of rank 0 of replica 0.
C19_ProposalShared ==
  [][(pc = "propose" /\ conf.doscale_) =>
       LET prop == Reflect(scale_[Root]
                             + Move(conf.Dscale_, rand(seed[Root])),
                           conf.scale_min_, conf.scale_max_)
       IN  \A p \in Procs :
             /\ new_scale'[p] = prop
             /\ new_energy'[p] = Energy(new_sigma'[p], prop, p)]_vars

\* a proposal that moves the scale, on a rank of the second replica whose
\* generator is in another state than that of replica 0
C19_Witness ==
  /\ pc = "metropolis" /\ conf.doscale_ /\ topo = 2
  /\ new_scale[<<1, 1>>] = new_scale[Root]
  /\ new_scale[Root] # scale_[Root]
  /\ seed[<<1, 1>>] # seed[Root]

\* the end-to-end scenario: GAUSS, one argument, reference 0, no scale
\* sampling, DSIGMA = 0
Scenario ==
  /\ Constructed /\ conf.noise_type_ = GAUSS /\ NArg = 1
  /\ conf.parameters = <<0>> /\ ~conf.doscale_ /\ conf.Dsigma_ = 0

\* sigma^2 + sigma_mean^2 on process p
Variance(p) ==
  Mul(sigma_[p][1], sigma_[p][1]) + Mul(sigma_mean_[p], sigma_mean_[p])

\* C20 as written: in the scenario, after every calculate() sigma is its
\* initial value, the force is -kT*argument/(sigma^2 + sigma_mean^2) and the
\* bias kT*(0.5*argument^2/(sigma^2 + sigma_mean^2)
\* + log((sigma^2 + sigma_mean^2)*sqrt(2 pi))), a function of the argument.
C20_ForceOneReplica ==
  (AfterCalculate /\ Scenario) =>
     \A p \in Procs :
       LET a == getArgument(p, 1)
       IN  /\ sigma_[p] = SigmaInit(input)
           /\ Near(outputForce[p][1], Div(Mul(-conf.kbt_, a), Variance(p)))
           /\ Near(valueBias[p],
                   Mul(conf.kbt_,
                       Div(Mul(Mul(HALF, a), a), Variance(p))
                       + Ln(Mul(Variance(p), sqrt2pi))))

\* C20 amended: in the scenario, after every calculate() sigma is its
\* initial value, the force is
\* -kT*argument*replica_count/(sigma^2 + sigma_mean^2) and the bias
\* kT*(0.5*argument^2*replica_count/(sigma^2 + sigma_mean^2)
\* + log((sigma^2 + sigma_mean^2)*sqrt(2 pi))), a function of the argument.
C20_ForceEnsemble ==
  (AfterCalculate /\ Scenario) =>
     \A p \in Procs :
       LET a == getArgument(p, 1)
       IN  /\ sigma_[p] = SigmaInit(input)
           /\ Near(outputForce[p][1],
                   topo * Div(Mul(-conf.kbt_, a), Variance(p)))
           /\ Near(valueBias[p],
                   Mul(conf.kbt_,
                       topo * Div(Mul(Mul(HALF, a), a), Variance(p))
                       + Ln(Mul(Variance(p), sqrt2pi))))
           /\ \A q \in Procs :
                getArgument(q, 1) = a => valueBias[q] = valueBias[p]

\* two replicas, an argument other than zero, after sampler invocations
C20_Witness ==
  /\ AfterCalculate /\ Scenario /\ topo = 2 /\ MCcalls >= 1
  /\ getArgument(<<1, 0>>, 1) # 0 /\ outputForce[<<1, 1>>][1] < 0
  /\ getArgument(Root, 1) = 0 /\ outputForce[Root][1] = 0

\* C21: the ranks of one replica stay in lockstep: same state of the
\* generator (same seed, same number of draws), same proposals, same
\* decisions, hence the same scale, sigma, old_energy and accepted counter as
\* the replica's leader, in every state.
C21_RanksInLockstep ==
  Constructed =>
     \A p \in Procs :
       /\ seed[p] = seed[Leader(p)]
       /\ new_scale[p] = new_scale[Leader(p)]
       /\ new_sigma[p] = new_sigma[Leader(p)]
       /\ delta[p] = delta[Leader(p)]
       /\ scale_[p] = scale_[Leader(p)] /\ sigma_[p] = sigma_[Leader(p)]
       /\ old_energy[p] = old_energy[Leader(p)]
       /\ MCaccept_[p] = MCaccept_[Leader(p)]

\* two replicas that drew and decided differently, the ranks of each
\* together
C21_Witness ==
  /\ AfterCalculate /\ topo = 2 /\ MCcalls >= 2
  /\ seed[<<1, 0>>] # seed[Root] /\ sigma_[<<1, 0>>] # sigma_[Root]
  /\ MCaccept_[<<1, 1>>] >= 1 /\ MCaccept_[<<1, 1>>] # MCaccept_[<<0, 1>>]
  /\ seed[<<1, 1>>] = seed[<<1, 0>>] /\ sigma_[<<1, 1>>] = sigma_[<<1, 0>>]

\* five values across [lo, hi], the ends included
Grid(lo, hi) == {lo + (k * (hi - lo)) \div 4 : k \in 0..4}

\* every value of the grid, moved by every draw, is reflected into [lo, hi]
ReflectionSafe(lo, hi, D) ==
  \A v \in Grid(lo, hi) : \A r \in 0..RAND_MAX :
    InBounds(Reflect(v + Move(D, r), lo, hi), lo, hi)

\* some value of the grid, moved by some draw, is reflected out of [lo, hi]
ReflectionEscapes(lo, hi, D) ==
  \E v \in Grid(lo, hi) : \E r \in 0..RAND_MAX :
    ~InBounds(Reflect(v + Move(D, r), lo, hi), lo, hi)

\* C22: with a step size D, 0 <= D <= max - min, every proposal from a
\* value in [min, max] lies in [min, max] after the two reflection tests,
\* for the moves the sampler makes and for every value and draw; with
\* D > max - min some proposal of a value in [min, max] ends outside.
C22_ReflectionWithinWidth ==
  Constructed =>
     /\ (0 <= conf.Dsigma_ /\ conf.Dsigma_ <= conf.sigma_max_ - conf.sigma_min_)
          => /\ ReflectionSafe(conf.sigma_min_, conf.sigma_max_, conf.Dsigma_)
             /\ \A p \in Procs : \A j \in 1..Len(sigma_[p]) :
                  /\ InBounds(sigma_[p][j], conf.sigma_min_, conf.sigma_max_)
                  /\ InBounds(new_sigma[p][j],
                              conf.sigma_min_, conf.sigma_max_)
     /\ (conf.doscale_ /\ 0 <= conf.Dscale_
           /\ conf.Dscale_ <= conf.scale_max_ - conf.scale_min_)
          => /\ ReflectionSafe(conf.scale_min_, conf.scale_max_, conf.Dscale_)
             /\ \A p \in Procs :
                  /\ InBounds(scale_[p], conf.scale_min_, conf.scale_max_)
                  /\ InBounds(new_scale[p], conf.scale_min_, conf.scale_max_)
     /\ conf.Dsigma_ > conf.sigma_max_ - conf.sigma_min_
          => ReflectionEscapes(conf.sigma_min_, conf.sigma_max_, conf.Dsigma_)
     /\ (conf.doscale_ /\ conf.Dscale_ > conf.scale_max_ - conf.scale_min_)
          => ReflectionEscapes(conf.scale_min_, conf.scale_max_, conf.Dscale_)

\* a step size equal to max - min: the draw behind the sigma proposal of
\* rank 0 of replica 0 gave a value below the minimum, and the proposal is
\* inside
C22_Witness ==
  /\ pc = "metropolis" /\ conf.Dsigma_ = conf.sigma_max_ - conf.sigma_min_
  /\ conf.Dsigma_ > 0
  /\ \E s0 \in 0..(RandModulus - 1) :
       /\ RandIter(s0, ScaleDraws + Len(sigma_[Root])) = seed[Root]
       /\ sigma_[Root][1] + Move(conf.Dsigma_, rand(RandIter(s0, ScaleDraws)))
            < conf.sigma_min_
  /\ InBounds(new_sigma[Root][1], conf.sigma_min_, conf.sigma_max_)
  /\ new_sigma[Root][1] > conf.sigma_min_

\* the ranks whose proposal of the inner step under way was rejected: delta
\* above zero and the draw not below exp(-delta)
RejectedBefore(p) == ~(Delta(p) <= 0 \/ Uniform(rand(seed[p])) < Exp(-Delta(p)))
RejectedAfter(p) == delta[p] > 0 /\ old_energy[p] # new_energy[p]

\* C23: a rank whose proposal is rejected in an inner MC step holds at the
\* end of that step (after the accept/reject statement and after the scale
\* broadcasts that close the step) the scale, sigma, old_energy and accepted
\* counter it held at its start.
C23_RejectionKeepsState ==
  [][/\ pc = "metropolis" =>
          \A p \in Procs : RejectedBefore(p) =>
            /\ scale_'[p] = scale_[p] /\ sigma_'[p] = sigma_[p]
            /\ old_energy'[p] = old_energy[p]
            /\ MCaccept_'[p] = MCaccept_[p]
     /\ pc = "sync" =>
          \A p \in Procs : RejectedAfter(p) =>
            /\ scale_'[p] = scale_[p] /\ sigma_'[p] = sigma_[p]
            /\ old_energy'[p] = old_energy[p]
            /\ MCaccept_'[p] = MCaccept_[p]]_vars

\* C24: once the sampler has been invoked, on every rank old_energy is the
\* energy that was computed for the (scale, sigma) pair the rank holds.
C24_OldEnergyOfHeldPair ==
  MCcalls >= 1 =>
     \A p \in Procs : energy_of[p] = <<scale_[p], sigma_[p]>>

\* C25: with MC_STEPS >= 1, after every calculate() the published
\* acceptance ratio lies in [0, 1]: the accepted counter never decreases,
\* has grown by at most MC_STEPS per sampler invocation, and the sampler
\* invocations so far do not exceed the trial count
\* floor((step - first_step)/stride) + 1.
C25_RatioInUnitInterval ==
  /\ []((AfterCalculate /\ conf.MCsteps_ >= 1) =>
          \A p \in Procs :
            /\ ~valueAccept[p].nan
            /\ 0 <= valueAccept[p].val /\ valueAccept[p].val <= FP
            /\ 0 <= MCaccept_[p]
            /\ MCaccept_[p] <= MCcalls * conf.MCsteps_
            /\ MCcalls <= ((step - MCfirst_[p]) \div conf.MCstride_) + 1)
  /\ [][\A p \in Procs : MCaccept_'[p] >= MCaccept_[p]]_vars

\* two inner steps per invocation, every proposal of every invocation
\* accepted: the ratio is 1
C25_Witness ==
  /\ AfterCalculate /\ conf.MCsteps_ = 2 /\ MCcalls >= 2
  /\ MCaccept_[Root] = MCcalls * conf.MCsteps_
  /\ valueAccept[Root].val = FP

C27_BiasIsSamplerEnergy ==
  AfterCalculate =>
     \A p \in Procs : Near(valueBias[p], Energy(sigma_[p], scale_[p], p))

====
